---------------------------- MODULE Spec2Model ----------------------------
(***************************************************************************)
(* State-machine model of the security bot (src/bot.py): the allowlist     *)
(* check is_allowed / require_allowed, the allow, antispam and             *)
(* antispam_config commands, the per-guild anti-spam cache and the          *)
(* per-(guild, user) sliding message window of on_message.                 *)
(*                                                                         *)
(* Every coroutine is cut at its await points: one action per segment that *)
(* runs without yielding to the event loop.  A database statement is its   *)
(* own step (the server executes it while the coroutine is suspended), and *)
(* the code after the statement is the following step.  An argument of a   *)
(* command that no code reads before the command's database statement is   *)
(* drawn at that statement: until then it cannot influence any step.       *)
(***************************************************************************)
EXTENDS Integers, Sequences, FiniteSets, TLC

\* ----------------------------------------------------------------- bounds
MaxTasks == 2      \* handlers that may be in flight at the same time
MaxAccess == 2     \* invocations of allow and of the gated commands delivered
                   \* (of all commands, where allow and the settings commands meet)
MaxSettings == 2   \* invocations of antispam and antispam_config, and joins, delivered
MaxRateSettings == 1 \* the same, while messages are being handled
MaxMessages == 4   \* messages delivered
MaxRateEvents == 3 \* settings commands, joins and messages delivered together
MaxTime == 3       \* last value of the clock, in seconds

\* ------------------------------------------------------------ input sets
Guilds == {1, 2}
NoGuild == 0                       \* message.guild / interaction.guild is None
Users == {1, 2}
NoUser == 0                        \* the optional `user` argument left out
OwnerOf(g) == 1                    \* guild.owner_id
TaskIds == 1..MaxTasks
Times == 0..MaxTime

RESTRICTED_COMMANDS ==
    {"shutdown", "reset", "lockdown", "unlockdown", "purge", "slowmode",
     "kick", "ban", "allow", "antispam"}

Wildcard == "*"
NoCommand == "none"                \* the optional `command` argument left out

\* what a caller may type as the `command` argument of /allow
CommandInputs == {"Shutdown", "allow", "*", "bogus"}

\* the commands behind require_allowed whose body is platform I/O only
GatedCommands == {"shutdown"}

\* antispam_config ranges: messages 2..30, per_seconds 2..30, timeout 5..600
MessagesInputs == {3}
PerSecondsInputs == {2}
TimeoutInputs == {20}

\* str.lower() on the strings above
Lower(s) ==
    CASE s = "Shutdown" -> "shutdown"
      [] OTHER -> s

\* --------------------------------------------------------------- configs
Config(e, m, p, t) ==
    [enabled |-> e, messages |-> m, per_seconds |-> p, timeout_seconds |-> t]

\* a default that switches the limiter on
CacheDefaultOn == Config(TRUE, 6, 4, 30)

\* column defaults of settings_antispam
TableDefault == Config(FALSE, 6, 4, 30)
\* the literal (False, 6, 4, 30) of the bot
CacheDefault == Config(FALSE, 6, 4, 30)

EmptyMap == [x \in {} |-> 0]

Put(f, k, v) == [x \in (DOMAIN f) \cup {k} |-> IF x = k THEN v ELSE f[x]]

\* dict.get(key, default)
Get(f, k, d) == IF k \in DOMAIN f THEN f[k] ELSE d

\* the settings_antispam table an earlier run of the bot left behind: guild 1 was
\* configured with antispam_config 2 2 5, guild 2 has not been seen yet
InitialTable == Put(EmptyMap, 1, Config(TRUE, 2, 2, 5))

\* the guild_allowed_users table that run left behind: the owner of guild 1 gave
\* user 2 the wildcard
InitialGrants == {[guild_id |-> 1, user_id |-> 2, command_name |-> "*", added_by |-> 1]}

VARIABLES
    ready,                 \* setup_hook has completed
    storeUp,               \* the database is reachable
    clock,                 \* now_utc().timestamp()
    guild_allowed_users,   \* table: set of rows
    settings_antispam,     \* table: guild_id -> row
    antispam_cache,        \* bot.antispam_cache
    msg_window,            \* bot.msg_window
    tasks,                 \* the handlers in flight, with their locals
    nEvents,               \* events delivered so far, by class
    obs,                   \* history: the last pass of on_message over the window
    chk,                   \* history: the last outcome of require_allowed
    op,                    \* history: the last statement or rejection of allow_cmd
    mit,                   \* history: the last timeout applied with member.edit
    written,               \* history: guild -> what its last completed settings command
                           \*          left in the cache
    fresh,                 \* history: (guild, user) -> messages counted since on_message
                           \*          last decided to time the user out
    exempt                 \* history: the last message came from a bot or from outside
                           \*          any guild

vars == <<ready, storeUp, clock, guild_allowed_users, settings_antispam,
          antispam_cache, msg_window, tasks, nEvents, obs, chk, op, mit, written,
          fresh, exempt>>

IdleTask ==
    [kind |-> "none", pc |-> "idle", gid |-> 0, uid |-> 0, command |-> "none",
     checked |-> "none",
     enabled |-> FALSE, messages |-> 0, per_seconds |-> 0, timeout_seconds |-> 0]

NoObs == [n |-> 0, gid |-> 0, uid |-> 0, enabled |-> FALSE, max_msgs |-> 0, len |-> 0,
          decision |-> "none", up |-> TRUE]

NoChk == [privileged |-> FALSE, result |-> "none", gid |-> 0, uid |-> 0,
          command_name |-> "none"]

NoOp == [action |-> "none", gid |-> 0, user |-> 0, command_name |-> "none", found |-> FALSE]

NoMit == [gid |-> 0, uid |-> 0, timeout_seconds |-> 0, n |-> 0]

Init ==
    /\ ready = FALSE
    /\ storeUp = TRUE
    /\ clock = 0
    /\ guild_allowed_users = InitialGrants
    /\ settings_antispam = InitialTable
    /\ antispam_cache = EmptyMap
    /\ msg_window = EmptyMap
    /\ tasks = [t \in TaskIds |-> IdleTask]
    /\ nEvents = [access |-> 0, settings |-> 0, message |-> 0]
    /\ obs = NoObs
    /\ chk = NoChk
    /\ op = NoOp
    /\ mit = NoMit
    /\ written = EmptyMap
    /\ fresh = EmptyMap
    /\ exempt = FALSE


\* ------------------------------------------------------------ task slots
Idle(t) == tasks[t].pc = "idle"

\* a new handler takes the first free slot
FreeSlot(t) == Idle(t) /\ \A s \in TaskIds : s < t => ~Idle(s)

Limit(class) ==
    CASE class = "access" -> MaxAccess
      [] class = "settings" -> MaxSettings
      [] OTHER -> MaxMessages

CanDeliver(class) == ready /\ nEvents[class] < Limit(class)

Delivered(class) == [nEvents EXCEPT ![class] = @ + 1]

Finish(t) == [tasks EXCEPT ![t] = IdleTask]

\* ------------------------------------------------------- access control
Row(g, u, c, by) == [guild_id |-> g, user_id |-> u, command_name |-> c, added_by |-> by]

\* the SELECT without its `OR command_name='*'`
DbAllowedExact(table, g, u, command_name) ==
    \E r \in table :
        r.guild_id = g /\ r.user_id = u /\ r.command_name = Lower(command_name)

\* the SELECT of is_allowed: a row for the command, or for '*'
DbAllowed(table, g, u, command_name) ==
    \E r \in table :
        /\ r.guild_id = g
        /\ r.user_id = u
        /\ (r.command_name = Lower(command_name) \/ r.command_name = Wildcard)

\* is_allowed without the owner shortcut
ShortcutNoOwner(g, u, administrator, manage_guild) ==
    IF g = NoGuild THEN "false"
    ELSE IF administrator \/ manage_guild THEN "true"
    ELSE "db"

\* the shortcut without the manage_guild permission
ShortcutAdminOnly(g, u, administrator, manage_guild) ==
    IF g = NoGuild THEN "false"
    ELSE IF OwnerOf(g) = u THEN "true"
    ELSE IF administrator THEN "true"
    ELSE "db"

\* is_allowed up to the database lookup: "true", "false", or "db" (ask the table)
Shortcut(g, u, administrator, manage_guild) ==
    IF g = NoGuild THEN "false"
    ELSE IF OwnerOf(g) = u THEN "true"
    ELSE IF administrator \/ manage_guild THEN "true"
    ELSE "db"

\* the lookup itself: it raises when the database cannot be reached
LookupResult(up, table, g, u, command_name) ==
    IF ~up THEN "error"
    ELSE IF DbAllowed(table, g, u, command_name) THEN "true"
    ELSE "false"

\* a plain INSERT into a table without the unique key
GrantAlways(table, g, u, c, by) == table \cup {Row(g, u, c, by)}

\* an INSERT that refuses a grant to the invoker
GrantOthersOnly(table, g, u, c, by) ==
    IF u = by \/ \E r \in table : r.guild_id = g /\ r.user_id = u /\ r.command_name = c
    THEN table
    ELSE table \cup {Row(g, u, c, by)}

\* INSERT IGNORE under UNIQUE KEY uniq_allow (guild_id, user_id, command_name)
Grant(table, g, u, c, by) ==
    IF \E r \in table : r.guild_id = g /\ r.user_id = u /\ r.command_name = c
    THEN table
    ELSE table \cup {Row(g, u, c, by)}

\* a DELETE that takes the wildcard row along
RevokeWithWildcard(table, g, u, c) ==
    {r \in table : ~(r.guild_id = g /\ r.user_id = u /\ r.command_name \in {c, Wildcard})}

\* DELETE ... WHERE guild_id=%s AND user_id=%s AND command_name=%s
Revoke(table, g, u, c) ==
    {r \in table : ~(r.guild_id = g /\ r.user_id = u /\ r.command_name = c)}

\* the two SELECTs of `allow list`, as the set of (user_id, command_name) returned
ListRows(table, g, c) ==
    {<<r.user_id, r.command_name>> : r \in
        {x \in table : /\ x.guild_id = g
                       /\ (c = Wildcard \/ x.command_name = c \/ x.command_name = Wildcard)}}

\* the number of rows the SELECT of `allow list` returns
ListLength(table, g, c) ==
    Cardinality({x \in table : /\ x.guild_id = g
                               /\ (c = Wildcard \/ x.command_name = c
                                                \/ x.command_name = Wildcard)})

\* the name each command hands to require_allowed
CheckName(task) ==
    CASE task.kind = "allow" -> "allow"
      [] task.kind = "antispam" -> "antispam"
      [] task.kind = "antispam_config" -> "antispam"
      [] OTHER -> task.command

\* command_name = (command or "*").lower()
NormalCommand(command) == Lower(IF command = NoCommand THEN Wildcard ELSE command)

\* allow_cmd without the check of the command name
AllowRejectsNoUser(action, user, command) ==
    action \in {"add", "remove"} /\ user = NoUser

\* allow_cmd returns before touching the database
AllowRejects(action, user, command) ==
    \/ action \in {"add", "remove"} /\ user = NoUser
    \/ /\ NormalCommand(command) # Wildcard
       /\ NormalCommand(command) \notin RESTRICTED_COMMANDS

\* a check that lets every invocation through
AdmitsAll(result) == TRUE

\* a check that stops the command only on a returned False
AdmitsUnlessDenied(result) == result # "false"

\* what the app_commands check does with the answer of the predicate: only a
\* returned True lets the command body run
Admits(result) == result = "true"

\* the task once the predicate has answered: the body up to its database block,
\* or nothing (the body of a gated command is platform I/O only)
Checked(task, result) ==
    IF Admits(result) /\ task.kind # "gated"
    THEN [task EXCEPT !.pc = "body_db", !.checked = result]
    ELSE IdleTask

\* require_allowed.predicate once is_allowed has answered (or raised)
AfterCheck(t, task, privileged, result) ==
    /\ chk' = [privileged |-> privileged, result |-> result, gid |-> task.gid,
               uid |-> task.uid, command_name |-> CheckName(task)]
    /\ tasks' = [tasks EXCEPT ![t] = Checked(task, result)]

\* a slash command arrives: the check runs up to its first await
Invoke(t, class, task, administrator, manage_guild) ==
    /\ CanDeliver(class)
    /\ FreeSlot(t)
    /\ nEvents' = Delivered(class)
    /\ LET s == Shortcut(task.gid, task.uid, administrator, manage_guild)
       IN  IF s = "db"
           THEN /\ tasks' = [tasks EXCEPT ![t] = [task EXCEPT !.pc = "auth_db"]]
                /\ chk' = chk
           ELSE AfterCheck(t, task, s = "true", s)
    /\ UNCHANGED <<ready, storeUp, clock, guild_allowed_users, settings_antispam,
                   antispam_cache, msg_window, obs, op, mit, written, fresh,
                   exempt>>

AllowInvoke ==
    \E t \in TaskIds, g \in Guilds \cup {NoGuild}, u \in Users, a, m \in BOOLEAN :
        Invoke(t, "access", [IdleTask EXCEPT !.kind = "allow", !.gid = g, !.uid = u], a, m)

AntispamInvoke ==
    \E t \in TaskIds, g \in Guilds \cup {NoGuild}, u \in Users, a, m \in BOOLEAN :
        Invoke(t, "settings", [IdleTask EXCEPT !.kind = "antispam", !.gid = g, !.uid = u], a, m)

AntispamConfigInvoke ==
    \E t \in TaskIds, g \in Guilds \cup {NoGuild}, u \in Users, a, m \in BOOLEAN :
        Invoke(t, "settings",
               [IdleTask EXCEPT !.kind = "antispam_config", !.gid = g, !.uid = u], a, m)

GatedInvoke ==
    \E t \in TaskIds, g \in Guilds \cup {NoGuild}, u \in Users, a, m \in BOOLEAN,
       command \in GatedCommands :
        Invoke(t, "access", [IdleTask EXCEPT !.kind = "gated", !.gid = g, !.uid = u,
                       !.command = command], a, m)

\* the SELECT of is_allowed runs and the predicate resumes
AuthLookup ==
    \E t \in TaskIds :
        /\ tasks[t].pc = "auth_db"
        /\ AfterCheck(t, tasks[t], FALSE,
                      LookupResult(storeUp, guild_allowed_users, tasks[t].gid,
                                   tasks[t].uid, CheckName(tasks[t])))
        /\ UNCHANGED <<ready, storeUp, clock, guild_allowed_users, settings_antispam,
                       antispam_cache, msg_window, nEvents, obs, op, mit,
                       written, fresh, exempt>>

\* the statement allow_cmd sends for its action
AllowStatement(table, action, g, user, command_name, by) ==
    CASE action = "add" -> Grant(table, g, user, command_name, by)
      [] action = "remove" -> Revoke(table, g, user, command_name)
      [] OTHER -> table

\* the body of allow_cmd: validation, then the INSERT IGNORE / DELETE / SELECT
AllowExecute ==
    \E t \in TaskIds, action \in {"add", "remove", "list"}, user \in Users \cup {NoUser},
       command \in CommandInputs \cup {NoCommand} :
        /\ tasks[t].kind = "allow"
        /\ tasks[t].pc = "body_db"
        /\ tasks' = Finish(t)
        /\ IF AllowRejects(action, user, command)
           THEN /\ UNCHANGED guild_allowed_users
                /\ op' = [action |-> "rejected", gid |-> tasks[t].gid, user |-> user,
                          command_name |-> NormalCommand(command), found |-> FALSE]
           ELSE IF ~storeUp
           THEN UNCHANGED <<guild_allowed_users, op>>
           ELSE /\ guild_allowed_users' =
                     AllowStatement(guild_allowed_users, action, tasks[t].gid, user,
                                    NormalCommand(command), tasks[t].uid)
                /\ op' = [action |-> action, gid |-> tasks[t].gid, user |-> user,
                          command_name |-> NormalCommand(command),
                          found |-> \E r \in guild_allowed_users :
                                        /\ r.guild_id = tasks[t].gid
                                        /\ r.user_id = user
                                        /\ r.command_name = NormalCommand(command)]
        /\ UNCHANGED <<ready, storeUp, clock, settings_antispam, antispam_cache,
                       msg_window, nEvents, obs, chk, mit, written, fresh,
                       exempt>>

\* --------------------------------------------------- anti-spam settings
\* an ensure that sends no INSERT
EnsureNoRow(table, g) == table

\* INSERT IGNORE INTO settings_antispam (guild_id): the column defaults fill the row
EnsureDefaultRow(table, g) ==
    IF g \in DOMAIN table THEN table ELSE Put(table, g, TableDefault)

\* an upsert that rewrites the whole row from the column defaults
UpsertEnabledResets(table, g, enabled) ==
    Put(table, g, [TableDefault EXCEPT !.enabled = enabled])

\* INSERT (guild_id, enabled) ... ON DUPLICATE KEY UPDATE enabled=VALUES(enabled)
UpsertEnabled(table, g, enabled) ==
    IF g \in DOMAIN table
    THEN [table EXCEPT ![g].enabled = enabled]
    ELSE Put(table, g, [TableDefault EXCEPT !.enabled = enabled])

\* INSERT (guild_id, 1, messages, per_seconds, timeout_seconds) ... ON DUPLICATE KEY UPDATE
UpsertConfig(table, g, messages, per_seconds, timeout_seconds) ==
    Put(table, g, Config(TRUE, messages, per_seconds, timeout_seconds))

\* prev = cache.get(guild, (False, 6, 4, 30)); cache[guild] = (enabled, prev[1], prev[2], prev[3])
SyncEnabled(cache, g, enabled) ==
    LET prev == Get(cache, g, CacheDefault)
    IN  Put(cache, g, Config(enabled, prev.messages, prev.per_seconds, prev.timeout_seconds))

\* cache[guild] = (True, messages, per_seconds, timeout_seconds)
SyncConfig(cache, g, messages, per_seconds, timeout_seconds) ==
    Put(cache, g, Config(TRUE, messages, per_seconds, timeout_seconds))

\* setup_hook: create the tables if missing, then load every row into the cache
SetupHook ==
    /\ ~ready
    /\ storeUp
    /\ ready' = TRUE
    /\ antispam_cache' = [g \in DOMAIN settings_antispam |-> settings_antispam[g]]
    /\ UNCHANGED <<storeUp, clock, guild_allowed_users, settings_antispam, msg_window,
                   tasks, nEvents, obs, chk, op, mit, written, fresh, exempt>>

\* the upsert of the antispam command
AntispamExecute ==
    \E t \in TaskIds, state \in {"on", "off"} :
        /\ tasks[t].kind = "antispam"
        /\ tasks[t].pc = "body_db"
        /\ IF ~storeUp
           THEN tasks' = Finish(t) /\ UNCHANGED settings_antispam
           ELSE /\ settings_antispam' =
                     UpsertEnabled(settings_antispam, tasks[t].gid, state = "on")
                /\ tasks' = [tasks EXCEPT ![t].pc = "body_ret", ![t].enabled = (state = "on")]
        /\ UNCHANGED <<ready, storeUp, clock, guild_allowed_users, antispam_cache,
                       msg_window, nEvents, obs, chk, op, mit, written, fresh,
                       exempt>>

\* "keep cache in sync": the lines of antispam after its database block
AntispamSync ==
    \E t \in TaskIds :
        /\ tasks[t].kind = "antispam"
        /\ tasks[t].pc = "body_ret"
        /\ antispam_cache' = SyncEnabled(antispam_cache, tasks[t].gid, tasks[t].enabled)
        /\ tasks' = Finish(t)
        /\ written' = Put(written, tasks[t].gid, antispam_cache'[tasks[t].gid])
        /\ UNCHANGED <<ready, storeUp, clock, guild_allowed_users, settings_antispam,
                       msg_window, nEvents, obs, chk, op, mit, fresh, exempt>>

\* the upsert of the antispam_config command
AntispamConfigExecute ==
    \E t \in TaskIds, messages \in MessagesInputs, per_seconds \in PerSecondsInputs,
       timeout_seconds \in TimeoutInputs :
        /\ tasks[t].kind = "antispam_config"
        /\ tasks[t].pc = "body_db"
        /\ IF ~storeUp
           THEN tasks' = Finish(t) /\ UNCHANGED settings_antispam
           ELSE /\ settings_antispam' =
                     UpsertConfig(settings_antispam, tasks[t].gid, messages,
                                  per_seconds, timeout_seconds)
                /\ tasks' = [tasks EXCEPT ![t].pc = "body_ret",
                                          ![t].messages = messages,
                                          ![t].per_seconds = per_seconds,
                                          ![t].timeout_seconds = timeout_seconds]
        /\ UNCHANGED <<ready, storeUp, clock, guild_allowed_users, antispam_cache,
                       msg_window, nEvents, obs, chk, op, mit, written, fresh,
                       exempt>>

\* the cache assignment of antispam_config after its database block
AntispamConfigSync ==
    \E t \in TaskIds :
        /\ tasks[t].kind = "antispam_config"
        /\ tasks[t].pc = "body_ret"
        /\ antispam_cache' =
              SyncConfig(antispam_cache, tasks[t].gid, tasks[t].messages,
                         tasks[t].per_seconds, tasks[t].timeout_seconds)
        /\ tasks' = Finish(t)
        /\ written' = Put(written, tasks[t].gid, antispam_cache'[tasks[t].gid])
        /\ UNCHANGED <<ready, storeUp, clock, guild_allowed_users, settings_antispam,
                       msg_window, nEvents, obs, chk, op, mit, fresh, exempt>>

\* ------------------------------------------------------- message window
\* no pruning at all
PruneNothing(window, cutoff) == window

\* pruning with an exclusive boundary
PruneStrict(window, cutoff) == SelectSeq(window, LAMBDA x : x > cutoff)

\* window = [t for t in window if t >= cutoff]
Prune(window, cutoff) == SelectSeq(window, LAMBDA x : x >= cutoff)

\* the threshold reached, not exceeded
Reaches(window, max_msgs) == Len(window) >= max_msgs

\* len(window) > max_msgs
Exceeds(window, max_msgs) == Len(window) > max_msgs

\* the window kept for disabled guilds too
SkipsNever(cfg) == FALSE

\* `if not enabled: return`
Skips(cfg) == ~cfg.enabled

\* an ensure that asks the database every time
CachedNever(cache, g) == FALSE

\* `if guild_id in self.antispam_cache: return`
Cached(cache, g) == g \in DOMAIN cache

\* messages of bots handled like those of members
IgnoredOutsideGuild(isBot, g) == g = NoGuild

\* `if message.author.bot or not message.guild: return`
Ignored(isBot, g) == isBot \/ g = NoGuild

\* on_message from the cache read to the first await of the timeout (or the return)
MessageBody(t, task, cache) ==
    LET cfg == Get(cache, task.gid, CacheDefault)
        now == clock
        key == <<task.gid, task.uid>>
        pre == Get(msg_window, key, <<>>)
        window == Prune(Append(pre, now), now - cfg.per_seconds)
        seen == [n |-> obs.n + 1, gid |-> task.gid, uid |-> task.uid,
                 enabled |-> cfg.enabled, max_msgs |-> cfg.messages, len |-> Len(pre),
                 decision |-> "NoAction", up |-> storeUp]
    IN  IF Skips(cfg)
        THEN /\ msg_window' = msg_window
             /\ tasks' = Finish(t)
             /\ obs' = seen
             /\ fresh' = fresh
        ELSE /\ msg_window' = Put(msg_window, key, window)
             /\ IF Exceeds(window, cfg.messages)
                THEN /\ tasks' = [tasks EXCEPT ![t] =
                            [task EXCEPT !.pc = "edit",
                                         !.timeout_seconds = cfg.timeout_seconds]]
                     /\ obs' = [seen EXCEPT !.len = Len(window), !.decision = "Mitigate"]
                     /\ fresh' = Put(fresh, key, 0)
                ELSE /\ tasks' = Finish(t)
                     /\ obs' = [seen EXCEPT !.len = Len(window)]
                     /\ fresh' = Put(fresh, key, Get(fresh, key, 0) + 1)

\* a message arrives: on_message up to its first await
OnMessage ==
    \E t \in TaskIds, g \in Guilds \cup {NoGuild}, u \in Users, isBot \in BOOLEAN :
        /\ CanDeliver("message")
        /\ FreeSlot(t)
        /\ nEvents' = Delivered("message")
        /\ exempt' = (isBot \/ g = NoGuild)
        /\ LET task == [IdleTask EXCEPT !.kind = "msg", !.gid = g, !.uid = u]
           IN  IF Ignored(isBot, g)
               THEN UNCHANGED <<tasks, msg_window, obs, fresh>>
               ELSE IF Cached(antispam_cache, g)
                    THEN MessageBody(t, task, antispam_cache)
                    ELSE /\ tasks' = [tasks EXCEPT ![t] = [task EXCEPT !.pc = "ensure_db"]]
                         /\ UNCHANGED <<msg_window, obs, fresh>>
        /\ UNCHANGED <<ready, storeUp, clock, guild_allowed_users, settings_antispam,
                       antispam_cache, chk, op, mit, written>>

\* the bot joins a guild: on_guild_join up to its first await
OnGuildJoin ==
    \E t \in TaskIds, g \in Guilds :
        /\ CanDeliver("settings")
        /\ FreeSlot(t)
        /\ nEvents' = Delivered("settings")
        /\ tasks' = IF Cached(antispam_cache, g)
                    THEN tasks
                    ELSE [tasks EXCEPT ![t] =
                            [IdleTask EXCEPT !.kind = "join", !.gid = g, !.pc = "ensure_db"]]
        /\ UNCHANGED <<ready, storeUp, clock, guild_allowed_users, settings_antispam,
                       antispam_cache, msg_window, obs, chk, op, mit, written, fresh,
                       exempt>>

\* the INSERT IGNORE of ensure_guild_antispam_row
EnsureInsert ==
    \E t \in TaskIds :
        /\ tasks[t].pc = "ensure_db"
        /\ IF ~storeUp
           THEN tasks' = Finish(t) /\ UNCHANGED settings_antispam
           ELSE /\ settings_antispam' = EnsureDefaultRow(settings_antispam, tasks[t].gid)
                /\ tasks' = [tasks EXCEPT ![t].pc = "ensure_ret"]
        /\ UNCHANGED <<ready, storeUp, clock, guild_allowed_users, antispam_cache,
                       msg_window, nEvents, obs, chk, op, mit, written, fresh,
                       exempt>>

\* ensure_guild_antispam_row stores the default in the cache and its caller goes on
EnsureReturn ==
    \E t \in TaskIds :
        /\ tasks[t].pc = "ensure_ret"
        /\ antispam_cache' = Put(antispam_cache, tasks[t].gid, CacheDefault)
        /\ IF tasks[t].kind = "join"
           THEN tasks' = Finish(t) /\ UNCHANGED <<msg_window, obs, fresh>>
           ELSE MessageBody(t, tasks[t], antispam_cache')
        /\ UNCHANGED <<ready, storeUp, clock, guild_allowed_users, settings_antispam,
                       nEvents, chk, op, mit, written, exempt>>

\* member.edit(timed_out_until=...) of handler t returns (ok) or raises
EditOutcome(t, ok) ==
        /\ tasks[t].pc = "edit"
        /\ IF ok
           THEN /\ tasks' = [tasks EXCEPT ![t].pc = "send"]
                /\ mit' = [gid |-> tasks[t].gid, uid |-> tasks[t].uid,
                           timeout_seconds |-> tasks[t].timeout_seconds, n |-> mit.n + 1]
           ELSE /\ tasks' = Finish(t)
                /\ mit' = mit
        /\ UNCHANGED <<ready, storeUp, clock, guild_allowed_users, settings_antispam,
                       antispam_cache, msg_window, nEvents, obs, chk, op,
                       written, fresh, exempt>>

MemberEdit == \E t \in TaskIds, ok \in BOOLEAN : EditOutcome(t, ok)

\* the timeout is applied
MemberEditReturns == \E t \in TaskIds : EditOutcome(t, TRUE)

\* channel.send(...) of handler t returns, and the window is cleared, or it raises
SendOutcome(t, ok) ==
        /\ tasks[t].pc = "send"
        /\ tasks' = Finish(t)
        /\ msg_window' = IF ok
                         THEN Put(msg_window, <<tasks[t].gid, tasks[t].uid>>, <<>>)
                         ELSE msg_window
        /\ UNCHANGED <<ready, storeUp, clock, guild_allowed_users, settings_antispam,
                       antispam_cache, nEvents, obs, chk, op, mit, written, fresh,
                       exempt>>

ChannelSend == \E t \in TaskIds, ok \in BOOLEAN : SendOutcome(t, ok)

\* the announcement is sent
ChannelSendReturns == \E t \in TaskIds : SendOutcome(t, TRUE)

\* ----------------------------------------------------------- environment
Tick ==
    /\ ready
    /\ clock < MaxTime
    /\ clock' = clock + 1
    /\ UNCHANGED <<ready, storeUp, guild_allowed_users, settings_antispam, antispam_cache,
                   msg_window, tasks, nEvents, obs, chk, op, mit, written, fresh,
                   exempt>>

StoreFails ==
    /\ ready
    /\ storeUp
    /\ storeUp' = FALSE
    /\ UNCHANGED <<ready, clock, guild_allowed_users, settings_antispam, antispam_cache,
                   msg_window, tasks, nEvents, obs, chk, op, mit, written, fresh,
                   exempt>>

StoreRecovers ==
    /\ ~storeUp
    /\ storeUp' = TRUE
    /\ UNCHANGED <<ready, clock, guild_allowed_users, settings_antispam, antispam_cache,
                   msg_window, tasks, nEvents, obs, chk, op, mit, written, fresh,
                   exempt>>

Next ==
    \/ SetupHook
    \/ AllowInvoke
    \/ AntispamInvoke
    \/ AntispamConfigInvoke
    \/ GatedInvoke
    \/ AuthLookup
    \/ AllowExecute
    \/ AntispamExecute
    \/ AntispamSync
    \/ AntispamConfigExecute
    \/ AntispamConfigSync
    \/ OnMessage
    \/ OnGuildJoin
    \/ EnsureInsert
    \/ EnsureReturn
    \/ MemberEdit
    \/ ChannelSend
    \/ Tick
    \/ StoreFails
    \/ StoreRecovers

Spec == Init /\ [][Next]_vars

\* the access-control half: the allowlist table and the commands behind it
NextAuth ==
    \/ SetupHook
    \/ AllowInvoke
    \/ GatedInvoke
    \/ AuthLookup
    \/ AllowExecute
    \/ StoreFails
    \/ StoreRecovers

SpecAuth == Init /\ [][NextAuth]_vars

\* commands delivered so far
CommandEvents == nEvents.access + nEvents.settings

\* every command that changes a table or the cache, behind its check; MaxAccess
\* bounds the commands of all kinds together
NextCommands ==
    \/ SetupHook
    \/ CommandEvents < MaxAccess /\ AllowInvoke
    \/ CommandEvents < MaxAccess /\ AntispamInvoke
    \/ CommandEvents < MaxAccess /\ AntispamConfigInvoke
    \/ AuthLookup
    \/ AllowExecute
    \/ AntispamExecute
    \/ AntispamSync
    \/ AntispamConfigExecute
    \/ AntispamConfigSync

SpecCommands == Init /\ [][NextCommands]_vars

\* the message windows alone: messages, clock and timeouts under the settings the
\* bot started with
NextWindow ==
    \/ SetupHook
    \/ OnMessage
    \/ EnsureInsert
    \/ EnsureReturn
    \/ MemberEdit
    \/ ChannelSend
    \/ Tick

SpecWindow == Init /\ [][NextWindow]_vars

\* no handler is in flight
Quiet == \A t \in TaskIds : Idle(t)

\* the message windows when every message is handled to completion before the
\* next one is delivered
NextSeq ==
    \/ SetupHook
    \/ Quiet /\ OnMessage
    \/ EnsureInsert
    \/ EnsureReturn
    \/ MemberEdit
    \/ ChannelSend
    \/ Tick

SpecSeq == Init /\ [][NextSeq]_vars

\* the message windows when every timeout is applied and announced
NextApplied ==
    \/ SetupHook
    \/ OnMessage
    \/ EnsureInsert
    \/ EnsureReturn
    \/ MemberEditReturns
    \/ ChannelSendReturns
    \/ Tick

SpecApplied == Init /\ [][NextApplied]_vars

\* settings commands, joins and messages delivered so far
RateEvents == nEvents.settings + nEvents.message

\* one more settings command or join may be delivered next to the messages
RateSettingsOpen == RateEvents < MaxRateEvents /\ nEvents.settings < MaxRateSettings

\* the settings: the antispam commands, joins and messages racing for the table and
\* the cache, with a database that may fail
NextRate ==
    \/ SetupHook
    \/ RateSettingsOpen /\ AntispamInvoke
    \/ RateSettingsOpen /\ AntispamConfigInvoke
    \/ AuthLookup
    \/ AntispamExecute
    \/ AntispamSync
    \/ AntispamConfigExecute
    \/ AntispamConfigSync
    \/ RateEvents < MaxRateEvents /\ OnMessage
    \/ RateSettingsOpen /\ OnGuildJoin
    \/ EnsureInsert
    \/ EnsureReturn
    \/ MemberEdit
    \/ ChannelSend
    \/ StoreFails
    \/ StoreRecovers

SpecRate == Init /\ [][NextRate]_vars

\* first contact: joins and messages resolving the configuration of their guild
\* while no settings command runs, with a database that may fail
NextContact ==
    \/ SetupHook
    \/ RateEvents < MaxRateEvents /\ OnMessage
    \/ RateEvents < MaxRateEvents /\ OnGuildJoin
    \/ EnsureInsert
    \/ EnsureReturn
    \/ MemberEdit
    \/ ChannelSend
    \/ StoreFails
    \/ StoreRecovers

SpecContact == Init /\ [][NextContact]_vars

\* ------------------------------------------------------------- properties
\* is_allowed as a whole while the database answers
Authorize(table, g, u, administrator, manage_guild, command_name) ==
    LET s == Shortcut(g, u, administrator, manage_guild)
    IN  IF s = "db" THEN LookupResult(TRUE, table, g, u, command_name) ELSE s

HasRow(g, u, c) ==
    \E r \in guild_allowed_users :
        r.guild_id = g /\ r.user_id = u /\ r.command_name = c

\* the step in which the allowlist lookup of task t is answered
LookupStep(t) == tasks[t].pc = "auth_db" /\ tasks'[t].pc # "auth_db"

\* the step in which on_message reads the configuration and handles the window
ObserveStep == obs'.n = obs.n + 1

ObservedKey == <<obs.gid, obs.uid>>

Count(w, x) == Cardinality({i \in DOMAIN w : w[i] = x})

\* C1: is_allowed answers true for the guild owner, true for a member with the
\* administrator or manage-guild permission, and otherwise true exactly when the
\* table holds a row (guild, user, command) or (guild, user, '*'); a completed
\* `allow add` makes the answer true for that user and command, a completed
\* `allow remove` makes it false again unless a wildcard row (or a privilege) remains.
C1_AnswerState ==
    /\ \A g \in Guilds, u \in Users, a \in BOOLEAN, m \in BOOLEAN, c \in RESTRICTED_COMMANDS :
          (Authorize(guild_allowed_users, g, u, a, m, c) = "true")
            <=> (OwnerOf(g) = u \/ a \/ m \/ HasRow(g, u, c) \/ HasRow(g, u, Wildcard))
    /\ (op.action = "add" /\ op.command_name # Wildcard) =>
          Authorize(guild_allowed_users, op.gid, op.user, FALSE, FALSE, op.command_name) = "true"
    /\ (op.action = "remove" /\ op.command_name # Wildcard /\ op.user # OwnerOf(op.gid)
          /\ ~HasRow(op.gid, op.user, Wildcard)) =>
          Authorize(guild_allowed_users, op.gid, op.user, FALSE, FALSE, op.command_name) = "false"

C1_LookupStep ==
    \A t \in TaskIds :
        (LookupStep(t) /\ storeUp) =>
            /\ chk'.result \in {"true", "false"}
            /\ (chk'.result = "true") <=>
                  (\/ HasRow(tasks[t].gid, tasks[t].uid, CheckName(tasks[t]))
                   \/ HasRow(tasks[t].gid, tasks[t].uid, Wildcard))

C1_Authorize == [] C1_AnswerState /\ [][C1_LookupStep]_vars

\* the lookup answered true for an unprivileged member whose only row is the
\* concrete one an `allow add` has just inserted
C1_Witness ==
    /\ chk.result = "true"
    /\ ~chk.privileged
    /\ op.action = "add"
    /\ ~op.found
    /\ op.gid = chk.gid
    /\ op.user = chk.uid
    /\ op.command_name = chk.command_name
    /\ ~HasRow(chk.gid, chk.uid, Wildcard)

\* C7: when the database cannot be reached during the allowlist lookup, the check
\* ends with an error, the command body does not start, and the tables and the
\* cache are as they were.
C7_LookupFails ==
    \A t \in TaskIds :
        (LookupStep(t) /\ ~storeUp) =>
            /\ chk'.result = "error"
            /\ tasks'[t] = IdleTask
            /\ UNCHANGED <<guild_allowed_users, settings_antispam, antispam_cache, op>>

C7_FailClosed == [][C7_LookupFails]_vars

C7_Witness == chk.result = "error" /\ Quiet

\* C9: a row (guild, user, '*') makes is_allowed answer true for that user in that
\* guild for every restricted command, whatever other rows exist.
C9_WildcardState ==
    \A g \in Guilds, u \in Users :
        HasRow(g, u, Wildcard) =>
            \A c \in RESTRICTED_COMMANDS :
                Authorize(guild_allowed_users, g, u, FALSE, FALSE, c) = "true"

C9_WildcardStep ==
    \A t \in TaskIds :
        (LookupStep(t) /\ storeUp /\ HasRow(tasks[t].gid, tasks[t].uid, Wildcard)) =>
            chk'.result = "true"

C9_Wildcard == [] C9_WildcardState /\ [][C9_WildcardStep]_vars

\* an unprivileged member whose only row is the wildcard was let through
C9_Witness ==
    /\ chk.result = "true"
    /\ ~chk.privileged
    /\ op.action = "add"
    /\ ~op.found
    /\ op.command_name = Wildcard
    /\ op.gid = chk.gid
    /\ op.user = chk.uid
    /\ \A r \in guild_allowed_users :
          (r.guild_id = chk.gid /\ r.user_id = chk.uid) => r.command_name = Wildcard

\* C10: `allow remove` deletes only the row whose guild, user and command are the
\* ones given: every row that leaves the table in a step is that row, and
\* after the statement that row is gone.
C10_RemoveState ==
    op.action = "remove" => ~HasRow(op.gid, op.user, op.command_name)

C10_RemoveStep ==
    \A r \in guild_allowed_users \ guild_allowed_users' :
        /\ op'.action = "remove"
        /\ r.guild_id = op'.gid
        /\ r.user_id = op'.user
        /\ r.command_name = op'.command_name

C10_RevokeExact == [] C10_RemoveState /\ [][C10_RemoveStep]_vars

\* a concrete command a user held was revoked and the user keeps the wildcard
C10_Witness ==
    /\ op.action = "remove"
    /\ op.found
    /\ op.command_name # Wildcard
    /\ HasRow(op.gid, op.user, Wildcard)

\* the configuration on_message has just read for the observed guild
ObservedConfig == Get(antispam_cache', obs'.gid, CacheDefault)

\* the window of the observed key before the step, with the new timestamp appended
Appended == Append(Get(msg_window, <<obs'.gid, obs'.uid>>, <<>>), clock)

\* the handler that has just decided to time the author out
Mitigating(t) ==
    /\ tasks'[t].pc = "edit"
    /\ tasks[t].pc # "edit"
    /\ tasks'[t].gid = obs'.gid
    /\ tasks'[t].uid = obs'.uid

\* C2: when the events of one (guild, user) are handled one after the other, the
\* window of that key is empty once a handler that decided to mitigate has
\* finished, so that the next event counts from 1.
C2_ResetAfterFiring ==
    (Quiet /\ obs.decision = "Mitigate") => Get(msg_window, ObservedKey, <<>>) = <<>>

\* C3: a handler that decided to mitigate leaves the window of its key empty when
\* it ends, whether member.edit and channel.send returned or raised.
C3_EndsMitigation ==
    \A t \in TaskIds :
        (tasks[t].pc \in {"edit", "send"} /\ tasks'[t].pc = "idle") =>
            Get(msg_window', <<tasks[t].gid, tasks[t].uid>>, <<>>) = <<>>

C3_ResetWhateverHappens == [][C3_EndsMitigation]_vars

\* C4: in an enabled guild on_message decides to mitigate exactly when the window,
\* after the append and the pruning, is longer than max_msgs; at max_msgs it does
\* nothing more and the stored window is the pruned one.
C4_ObserveEnabled ==
    (ObserveStep /\ ObservedConfig.enabled) =>
        LET w == Get(msg_window', <<obs'.gid, obs'.uid>>, <<>>)
            cutoff == clock - ObservedConfig.per_seconds
        IN  /\ obs'.decision \in {"Mitigate", "NoAction"}
            /\ (obs'.decision = "Mitigate") <=> (Len(w) > ObservedConfig.messages)
            /\ (obs'.decision = "Mitigate") <=>
                  (\E t \in TaskIds :
                      /\ Mitigating(t)
                      /\ tasks'[t].timeout_seconds = ObservedConfig.timeout_seconds)
            /\ w = SelectSeq(Appended, LAMBDA x : x >= cutoff)
            /\ obs'.len = Len(w)

C4_StrictThreshold == [][C4_ObserveEnabled]_vars

\* a window exactly at the threshold was left alone
C4_Witness ==
    /\ obs.enabled
    /\ obs.decision = "NoAction"
    /\ obs.len = obs.max_msgs
    /\ Len(Get(msg_window, ObservedKey, <<>>)) = obs.max_msgs

\* C5: on an observation at time now every timestamp t >= now - per_seconds of the
\* window stays, as often as it occurred, and every t < now - per_seconds goes.
C5_ObservePrunes ==
    (ObserveStep /\ ObservedConfig.enabled) =>
        LET w == Get(msg_window', <<obs'.gid, obs'.uid>>, <<>>)
        IN  \A x \in Times :
                Count(w, x) = IF x >= clock - ObservedConfig.per_seconds
                              THEN Count(Appended, x)
                              ELSE 0

C5_InclusivePruning == [][C5_ObservePrunes]_vars

\* the window just observed still starts with a timestamp exactly per_seconds old
C5_Witness ==
    /\ obs.enabled
    /\ ObservedKey \in DOMAIN msg_window
    /\ LET w == msg_window[ObservedKey]
       IN  /\ Len(w) >= 2
           /\ Len(w) = obs.len
           /\ w[Len(w)] = clock
           /\ w[1] = clock - Get(antispam_cache, obs.gid, CacheDefault).per_seconds

\* C6: a message in a guild whose configuration is disabled leads to no action and
\* leaves bot.msg_window as it was: no key is added, no timestamp appended.
C6_ObserveDisabled ==
    (ObserveStep /\ ~ObservedConfig.enabled) =>
        /\ msg_window' = msg_window
        /\ obs'.decision = "NoAction"
        /\ \A t \in TaskIds : tasks'[t].pc = "edit" => tasks[t].pc = "edit"

C6_DisabledNoRecord == [][C6_ObserveDisabled]_vars

\* a message of a disabled guild was handled and its key does not exist
C6_Witness ==
    /\ obs.n > 0
    /\ ~obs.enabled
    /\ obs.decision = "NoAction"
    /\ ObservedKey \notin DOMAIN msg_window

\* a handler is between its first database statement and its cache update for g
Writing(g) ==
    \E t \in TaskIds :
        /\ tasks[t].gid = g
        /\ tasks[t].pc \in {"ensure_db", "ensure_ret", "body_db", "body_ret"}

\* C8: whenever no write for a guild is in progress, its cache entry equals its row
\* of settings_antispam (both missing counts as equal).
C8_CacheMatchesStore ==
    \A g \in Guilds :
        (ready /\ ~Writing(g)) =>
            /\ (g \in DOMAIN antispam_cache) <=> (g \in DOMAIN settings_antispam)
            /\ g \in DOMAIN antispam_cache => antispam_cache[g] = settings_antispam[g]

\* the rows of guild_allowed_users for one (guild, user, command)
RowsFor(g, u, c) ==
    {r \in guild_allowed_users :
        r.guild_id = g /\ r.user_id = u /\ r.command_name = c}

\* the step in which the body of allow_cmd run by task t ends
AllowStep(t) ==
    tasks[t].kind = "allow" /\ tasks[t].pc = "body_db" /\ tasks'[t].pc = "idle"

\* C11: `allow add` of a triple that is already granted is not an error and leaves
\* the table, and with it every `allow list`, as it was; after any `allow add`
\* the table holds exactly one row for the triple.
C11_OneRow ==
    /\ \A g \in Guilds, u \in Users, c \in RESTRICTED_COMMANDS \cup {Wildcard} :
          Cardinality(RowsFor(g, u, c)) <= 1
    /\ op.action = "add" => Cardinality(RowsFor(op.gid, op.user, op.command_name)) = 1

C11_GrantAgain ==
    \A t \in TaskIds :
        (AllowStep(t) /\ op'.action = "add" /\ op'.found) =>
            /\ guild_allowed_users' = guild_allowed_users
            /\ \A g \in Guilds, c \in RESTRICTED_COMMANDS \cup {Wildcard} :
                  /\ ListRows(guild_allowed_users', g, c) = ListRows(guild_allowed_users, g, c)
                  /\ ListLength(guild_allowed_users', g, c) =
                        ListLength(guild_allowed_users, g, c)

C11_GrantIdempotent == [] C11_OneRow /\ [][C11_GrantAgain]_vars

\* a triple granted in this run was granted a second time
C11_Witness ==
    /\ op.action = "add"
    /\ op.found
    /\ \A r \in InitialGrants :
          ~(r.guild_id = op.gid /\ r.user_id = op.user /\ r.command_name = op.command_name)
    /\ Cardinality(RowsFor(op.gid, op.user, op.command_name)) = 1

\* C12: for the owner of a guild is_allowed answers true for every command,
\* whatever rows guild_allowed_users holds: the owner's check never reaches the
\* table and never ends otherwise than with True.
C12_OwnerAlways ==
    /\ \A g \in Guilds, a \in BOOLEAN, m \in BOOLEAN, c \in RESTRICTED_COMMANDS :
          Authorize(guild_allowed_users, g, OwnerOf(g), a, m, c) = "true"
    /\ \A t \in TaskIds :
          tasks[t].pc = "auth_db" => tasks[t].uid # OwnerOf(tasks[t].gid)
    /\ (chk.result # "none" /\ chk.gid # NoGuild /\ chk.uid = OwnerOf(chk.gid)) =>
          chk.result = "true"

\* the owner was let through in a guild where a row granted to the owner has been
\* revoked again
C12_Witness ==
    /\ chk.result = "true"
    /\ chk.gid # NoGuild
    /\ chk.uid = OwnerOf(chk.gid)
    /\ op.action = "remove"
    /\ op.found
    /\ op.gid = chk.gid
    /\ op.user = chk.uid
    /\ \A r \in guild_allowed_users :
          ~(r.guild_id = chk.gid /\ r.user_id = chk.uid)

\* C13: allow_cmd given a command name outside RESTRICTED_COMMANDS and not '*'
\* answers "Unknown command" and leaves guild_allowed_users as it was, for add,
\* remove and list alike; every stored row names a restricted command or '*'.
C13_ValidRows ==
    \A r \in guild_allowed_users : r.command_name \in RESTRICTED_COMMANDS \cup {Wildcard}

C13_RejectStep ==
    \A t \in TaskIds :
        AllowStep(t) =>
            /\ (op'.action = "rejected") => guild_allowed_users' = guild_allowed_users
            /\ (op'.command_name \notin RESTRICTED_COMMANDS \cup {Wildcard, "none"}) =>
                  op'.action = "rejected"

C13_RejectsUnknown == [] C13_ValidRows /\ [][C13_RejectStep]_vars

\* an unknown command name was rejected
C13_Witness ==
    /\ op.action = "rejected"
    /\ op.user # NoUser
    /\ op.command_name \notin RESTRICTED_COMMANDS \cup {Wildcard}

\* the handlers inside ensure_guild_antispam_row for guild g
Ensuring(g) ==
    {t \in TaskIds : tasks[t].gid = g /\ tasks[t].pc \in {"ensure_db", "ensure_ret"}}

\* C14: while only joins and messages resolve the configuration of a guild that
\* had neither a row nor a cache entry, however their INSERT IGNOREs and cache
\* writes interleave, every handler past its INSERT finds the row of the guild in
\* the table, and once the cache has an entry for the guild that entry and the
\* row are both (False, 6, 4, 30).
C14_EnsureRace ==
    \A g \in Guilds \ DOMAIN InitialTable :
        /\ \A t \in Ensuring(g) :
              tasks[t].pc = "ensure_ret" => g \in DOMAIN settings_antispam
        /\ g \in DOMAIN settings_antispam =>
              settings_antispam[g] = Config(FALSE, 6, 4, 30)
        /\ g \in DOMAIN antispam_cache =>
              /\ antispam_cache[g] = Config(FALSE, 6, 4, 30)
              /\ g \in DOMAIN settings_antispam

\* two handlers missed the cache for the same guild; one has returned and filled
\* the cache, the other has sent its INSERT IGNORE and is about to return
C14_Witness ==
    \E t \in TaskIds :
        /\ tasks[t].pc = "ensure_ret"
        /\ tasks[t].gid \notin DOMAIN InitialTable
        /\ tasks[t].gid \in DOMAIN antispam_cache
        /\ tasks[t].gid \in DOMAIN settings_antispam

\* the step in which task t gets its INSERT IGNORE answered
EnsureInsertStep(t) == tasks[t].pc = "ensure_db" /\ tasks'[t].pc = "ensure_ret"

\* the step in which ensure_guild_antispam_row of task t writes the cache
EnsureReturnStep(t) == tasks[t].pc = "ensure_ret" /\ tasks'[t].pc # "ensure_ret"

\* C15: when on_message reads the configuration of a guild, the guild has a row in
\* settings_antispam and an entry in the cache; a row or an entry that a join or
\* a message creates is (False, 6, 4, 30); no step removes a row or an entry.
C15_Lifecycle ==
    /\ ObserveStep =>
          /\ obs'.gid \in DOMAIN antispam_cache'
          /\ obs'.gid \in DOMAIN settings_antispam'
    /\ \A t \in TaskIds :
          /\ (EnsureInsertStep(t) /\ tasks[t].gid \notin DOMAIN settings_antispam) =>
                /\ tasks[t].gid \in DOMAIN settings_antispam'
                /\ settings_antispam'[tasks[t].gid] = Config(FALSE, 6, 4, 30)
          /\ (EnsureReturnStep(t) /\ tasks[t].gid \notin DOMAIN antispam_cache) =>
                /\ tasks[t].gid \in DOMAIN antispam_cache'
                /\ antispam_cache'[tasks[t].gid] = Config(FALSE, 6, 4, 30)
    /\ DOMAIN settings_antispam \subseteq DOMAIN settings_antispam'
    /\ DOMAIN antispam_cache \subseteq DOMAIN antispam_cache'

C15_CreatedOnFirstContact == [][C15_Lifecycle]_vars

\* the first message of a guild the bot had not seen was handled: the guild now
\* has the default in the table and in the cache
C15_Witness ==
    /\ obs.n > 0
    /\ obs.gid \notin DOMAIN InitialTable
    /\ ~obs.enabled
    /\ obs.gid \in DOMAIN settings_antispam
    /\ obs.gid \in DOMAIN antispam_cache
    /\ settings_antispam[obs.gid] = Config(FALSE, 6, 4, 30)
    /\ antispam_cache[obs.gid] = Config(FALSE, 6, 4, 30)

\* a settings command for guild g has been invoked and has not ended
Configuring(g) ==
    \E t \in TaskIds :
        tasks[t].gid = g /\ tasks[t].kind \in {"antispam", "antispam_config"}

\* a message has just been delivered
StartsMessage == nEvents'.message = nEvents.message + 1

\* C16: a message handler that starts after a settings command for its guild has
\* completed, while no other settings command for the guild is under way, decides
\* with the values that command left in the cache.
C16_ReadsWritten ==
    (StartsMessage /\ ObserveStep /\ obs'.gid \in DOMAIN written
        /\ ~Configuring(obs'.gid)) =>
        /\ ObservedConfig = written[obs'.gid]
        /\ obs'.enabled = written[obs'.gid].enabled
        /\ obs'.max_msgs = written[obs'.gid].messages

C16_CommandVisible == [][C16_ReadsWritten]_vars

\* C17: when on_message decides to time a user out, it has counted at least
\* max_msgs + 1 messages of that user (this one included) since its previous
\* decision to time the user out, however the handlers interleave: no message
\* counts toward two decisions.
C17_FreshEvents ==
    (ObserveStep /\ obs'.decision = "Mitigate") =>
        Get(fresh, <<obs'.gid, obs'.uid>>, 0) + 1 >= obs'.max_msgs + 1

C17_CountedOnce == [][C17_FreshEvents]_vars

\* the handler that has just entered ensure_guild_antispam_row's database block
EntersEnsure(t) == tasks'[t].pc = "ensure_db" /\ tasks[t].pc # "ensure_db"

\* C18: a message for a guild whose configuration is cached sends no statement to
\* the database: settings_antispam is untouched, the handler does not wait for the
\* INSERT, and its decision and its new window follow from the cache, the old
\* window and the clock alone, with the database reachable or not.
C18_CachedMessage ==
    StartsMessage =>
        /\ settings_antispam' = settings_antispam
        /\ antispam_cache' = antispam_cache
        /\ \A t \in TaskIds :
              EntersEnsure(t) => tasks'[t].gid \notin DOMAIN antispam_cache
        /\ ObserveStep =>
              LET g == obs'.gid
                  key == <<obs'.gid, obs'.uid>>
                  cfg == antispam_cache[g]
                  w == SelectSeq(Appended, LAMBDA x : x >= clock - cfg.per_seconds)
              IN  /\ g \in DOMAIN antispam_cache
                  /\ obs'.up = storeUp
                  /\ msg_window' = IF cfg.enabled THEN Put(msg_window, key, w)
                                   ELSE msg_window
                  /\ (obs'.decision = "Mitigate") <=>
                        (cfg.enabled /\ Len(w) > cfg.messages)

C18_NoStoreRoundTrip == [][C18_CachedMessage]_vars

\* a message of an enabled, cached guild was counted while the database was down
C18_Witness ==
    /\ obs.n > 0
    /\ ~obs.up
    /\ obs.enabled
    /\ obs.len >= 1
    /\ ObservedKey \in DOMAIN msg_window

\* the timestamps of w never decrease
Chronological(w) == \A i \in 1..(Len(w) - 1) : w[i] <= w[i + 1]

\* C19: with a clock that never goes back, every window of bot.msg_window is in
\* non-decreasing order and holds no timestamp of the future; right after an
\* observation at time now the window of the observed key holds only timestamps
\* t with now - per_seconds <= t <= now.
C19_Ordered ==
    \A k \in DOMAIN msg_window :
        /\ Chronological(msg_window[k])
        /\ \A i \in DOMAIN msg_window[k] : msg_window[k][i] <= clock

C19_ObserveBounds ==
    /\ clock' >= clock
    /\ (ObserveStep /\ ObservedConfig.enabled) =>
          LET w == Get(msg_window', <<obs'.gid, obs'.uid>>, <<>>)
          IN  /\ Len(w) >= 1
              /\ w[Len(w)] = clock
              /\ \A i \in DOMAIN w :
                    /\ clock - ObservedConfig.per_seconds <= w[i]
                    /\ w[i] <= clock

C19_WindowInOrder == [] C19_Ordered /\ [][C19_ObserveBounds]_vars

\* a window that has lost a timestamp to pruning holds two different timestamps
C19_Witness ==
    /\ obs.enabled
    /\ mit.n = 0
    /\ ObservedKey \in DOMAIN msg_window
    /\ LET w == msg_window[ObservedKey]
       IN  /\ Len(w) >= 2
           /\ w[1] < w[Len(w)]
           /\ w[Len(w)] = clock
           /\ Get(fresh, ObservedKey, 0) > Len(w)

\* the step in which the database block or the cache update of a settings command
\* run by task t is executed
SettingsStep(t) ==
    /\ tasks[t].kind \in {"antispam", "antispam_config"}
    /\ tasks[t].pc \in {"body_db", "body_ret"}
    /\ tasks'[t].pc # tasks[t].pc

\* C20: the body of a command runs only in an invocation whose check returned
\* True; an invocation whose check returned False (or raised) ends there and
\* changes nothing; every change of guild_allowed_users, settings_antispam or the
\* cache made by a command is made by such a body.
C20_BodyChecked ==
    \A t \in TaskIds :
        tasks[t].pc \in {"body_db", "body_ret"} => tasks[t].checked = "true"

C20_DeniedStep ==
    /\ \A t \in TaskIds :
          (LookupStep(t) /\ chk'.result # "true") =>
              /\ tasks'[t] = IdleTask
              /\ UNCHANGED <<guild_allowed_users, settings_antispam, antispam_cache>>
    /\ guild_allowed_users' # guild_allowed_users =>
          \E t \in TaskIds : AllowStep(t) /\ tasks[t].checked = "true"
    /\ (ready /\ (settings_antispam' # settings_antispam
                    \/ antispam_cache' # antispam_cache)) =>
          \E t \in TaskIds : SettingsStep(t) /\ tasks[t].checked = "true"

C20_OnlyAllowedMutate == [] C20_BodyChecked /\ [][C20_DeniedStep]_vars

\* a member without any grant was turned away and tables and cache are as the bot
\* found them
C20_Witness ==
    /\ chk.result = "false"
    /\ ~chk.privileged
    /\ chk.gid # NoGuild
    /\ \A c \in RESTRICTED_COMMANDS \cup {Wildcard} : ~HasRow(chk.gid, chk.uid, c)
    /\ Quiet
    /\ guild_allowed_users = InitialGrants
    /\ settings_antispam = InitialTable
    /\ antispam_cache = InitialTable

\* f2 is f at every key other than k
SameExcept(f, f2, k) ==
    \A x \in (DOMAIN f \cup DOMAIN f2) \ {k} :
        x \in DOMAIN f /\ x \in DOMAIN f2 /\ f2[x] = f[x]

\* the step in which task t runs the upsert of the antispam command
ToggleStoreStep(t) ==
    /\ tasks[t].kind = "antispam"
    /\ tasks[t].pc = "body_db"
    /\ tasks'[t].pc # "body_db"

\* the step in which task t runs the cache update of the antispam command
ToggleCacheStep(t) ==
    /\ tasks[t].kind = "antispam"
    /\ tasks[t].pc = "body_ret"
    /\ tasks'[t].pc # "body_ret"

\* C21: toggling with the antispam command changes only the enabled flag: in the
\* store and in the cache the messages, per_seconds and timeout_seconds of the
\* guild are what they were (the defaults where the guild had no entry), and the
\* rows and cache entries of all other guilds are unchanged.
C21_ToggleStep ==
    \A t \in TaskIds :
        LET g == tasks[t].gid
            row == Get(settings_antispam, g, TableDefault)
            entry == Get(antispam_cache, g, CacheDefault)
        IN  /\ ToggleStoreStep(t) =>
                /\ antispam_cache' = antispam_cache
                /\ SameExcept(settings_antispam, settings_antispam', g)
                /\ IF tasks'[t].pc = "body_ret"
                   THEN /\ g \in DOMAIN settings_antispam'
                        /\ settings_antispam'[g] =
                              Config(tasks'[t].enabled, row.messages, row.per_seconds,
                                     row.timeout_seconds)
                   ELSE settings_antispam' = settings_antispam
            /\ ToggleCacheStep(t) =>
                /\ settings_antispam' = settings_antispam
                /\ SameExcept(antispam_cache, antispam_cache', g)
                /\ g \in DOMAIN antispam_cache'
                /\ antispam_cache'[g] =
                      Config(tasks[t].enabled, entry.messages, entry.per_seconds,
                             entry.timeout_seconds)

C21_ToggleOnlyEnabled == [][C21_ToggleStep]_vars

\* a guild configured away from the defaults was switched off and kept its three
\* numbers in store and cache, next to another guild that has a cache entry
C21_Witness ==
    \E g \in DOMAIN written :
        /\ ~written[g].enabled
        /\ written[g].messages # CacheDefault.messages
        /\ g \in DOMAIN settings_antispam
        /\ settings_antispam[g] = written[g]
        /\ g \in DOMAIN antispam_cache
        /\ antispam_cache[g] = written[g]
        /\ \E h \in DOMAIN antispam_cache : h # g
        /\ Quiet

\* the step in which a message handler that is under way in task t moves on
MessageStep(t) == tasks[t].kind = "msg" /\ tasks'[t] # tasks[t]

\* the delivering step starts the handling of a message of user u in guild g
Handles(g, u) ==
    \/ obs'.n = obs.n + 1 /\ obs'.gid = g /\ obs'.uid = u
    \/ \E t \in TaskIds :
          /\ Idle(t)
          /\ tasks'[t].kind = "msg"
          /\ tasks'[t].gid = g
          /\ tasks'[t].uid = u

\* every window but that of (g, u) and every cache entry but that of g is as it was
SameElsewhere(g, u) ==
    /\ SameExcept(msg_window, msg_window', <<g, u>>)
    /\ SameExcept(antispam_cache, antispam_cache', g)

\* C22: handling a message of user u in guild g changes no window other than
\* that of (g, u) and no cache entry other than that of g, in the step that
\* delivers it and in every later step of its handler; a message of a bot or from
\* outside any guild changes nothing.
C22_MessageStep ==
    /\ StartsMessage =>
          IF exempt'
          THEN UNCHANGED <<ready, guild_allowed_users, settings_antispam,
                           antispam_cache, msg_window, tasks, obs, mit>>
          ELSE \E g \in Guilds, u \in Users : Handles(g, u) /\ SameElsewhere(g, u)
    /\ \A t \in TaskIds : MessageStep(t) => SameElsewhere(tasks[t].gid, tasks[t].uid)

C22_MessageFrame == [][C22_MessageStep]_vars

\* a bot has just written while two users hold windows and two guilds hold cache
\* entries: all of them are still there, and the last pass was a member's
C22_Witness ==
    /\ exempt
    /\ Quiet
    /\ \A u \in Users : <<1, u>> \in DOMAIN msg_window /\ msg_window[<<1, u>>] # <<>>
    /\ Guilds \subseteq DOMAIN antispam_cache
    /\ obs.n >= 3

\* the rows of user u in guild g
GrantsOf(g, u) == {r \in guild_allowed_users : r.guild_id = g /\ r.user_id = u}

\* C23: whether `allow` add/remove goes ahead depends on the invoker being allowed
\* the command 'allow' and on nothing else: the lookup asks for the invoker's
\* rows 'allow' and '*' only, the body runs only after a check that returned True,
\* it turns down a request only for a missing user or an unknown command name,
\* and otherwise adds or deletes exactly the row asked for, whoever the target
\* is (the invoker included) and whatever is granted (the wildcard included).
C23_AllowChecked ==
    \A t \in TaskIds :
        (tasks[t].kind = "allow" /\ tasks[t].pc = "body_db") => tasks[t].checked = "true"

C23_AllowStep ==
    \A t \in TaskIds :
        LET g == tasks[t].gid
            by == tasks[t].uid
            u == op'.user
            c == op'.command_name
            same == {r \in guild_allowed_users :
                        r.guild_id = g /\ r.user_id = u /\ r.command_name = c}
        IN  /\ (LookupStep(t) /\ tasks[t].kind = "allow" /\ storeUp) =>
                  (chk'.result = "true" <=> (HasRow(g, by, "allow") \/ HasRow(g, by, Wildcard)))
            /\ (AllowStep(t) /\ storeUp) =>
                  /\ op'.gid = g
                  /\ op'.action \in {"add", "remove", "list", "rejected"}
                  /\ op'.action = "rejected" =>
                        /\ u = NoUser \/ c \notin RESTRICTED_COMMANDS \cup {Wildcard}
                        /\ guild_allowed_users' = guild_allowed_users
                  /\ op'.action = "add" =>
                        guild_allowed_users' =
                           IF same # {}
                           THEN guild_allowed_users
                           ELSE guild_allowed_users \cup
                                  {[guild_id |-> g, user_id |-> u, command_name |-> c,
                                    added_by |-> by]}
                  /\ op'.action = "remove" =>
                        guild_allowed_users' = guild_allowed_users \ same
                  /\ op'.action = "list" => guild_allowed_users' = guild_allowed_users

C23_AllowOnlyNeedsAllow == [] C23_AllowChecked /\ [][C23_AllowStep]_vars

\* a member who is neither owner nor administrator and held nothing but the row
\* 'allow' has granted themself the wildcard
C23_Witness ==
    /\ chk.result = "true"
    /\ ~chk.privileged
    /\ chk.command_name = "allow"
    /\ chk.uid # OwnerOf(chk.gid)
    /\ op.action = "add"
    /\ ~op.found
    /\ op.gid = chk.gid
    /\ op.user = chk.uid
    /\ op.command_name = Wildcard
    /\ {r.command_name : r \in GrantsOf(chk.gid, chk.uid)} = {"allow", Wildcard}
    /\ \E r \in GrantsOf(chk.gid, chk.uid) :
          r.command_name = Wildcard /\ r.added_by = chk.uid

\* the step in which task t runs the cache assignment of antispam_config, the
\* last thing the command does to store or cache
ConfigCompletes(t) ==
    /\ tasks[t].kind = "antispam_config"
    /\ tasks[t].pc = "body_ret"
    /\ tasks'[t].pc # "body_ret"

\* C24: when antispam_config has completed, the row of the guild in
\* settings_antispam and its cache entry are both (True, messages, per_seconds,
\* timeout_seconds) with the three numbers the command was given, whether the
\* guild was disabled or had no row before.
C24_ConfigStep ==
    \A t \in TaskIds :
        ConfigCompletes(t) =>
            LET g == tasks[t].gid
                supplied == [enabled |-> TRUE, messages |-> tasks[t].messages,
                             per_seconds |-> tasks[t].per_seconds,
                             timeout_seconds |-> tasks[t].timeout_seconds]
            IN  /\ g \in DOMAIN settings_antispam'
                /\ settings_antispam'[g] = supplied
                /\ g \in DOMAIN antispam_cache'
                /\ antispam_cache'[g] = supplied

C24_ConfigLeavesEnabled == [][C24_ConfigStep]_vars

=============================================================================
